---- MODULE Spec2Model ----
(***************************************************************************)
(* Voice FNOL agent: the per-session conversation context store, the       *)
(* claim-extraction tool, the two completeness checks, the safety gate and *)
(* the claim submission tool, modelled from lib/services/voice-fnol-agent. *)
(*                                                                         *)
(* Python values: an Optional value is None (the empty tuple) or Some(v)   *)
(* (the one-element tuple <<v>>).  Opaque text is a TLA+ string; the       *)
(* other-party name parts, which the code joins and strips, are sequences  *)
(* of one-character strings.                                               *)
(***************************************************************************)
EXTENDS Integers, Sequences, FiniteSets, TLC

VARIABLES
    store,      \* _context_store: session_id -> (context, last_accessed)
    now,        \* time.time()
    ret,        \* the value returned by the last call
    calls,      \* number of extraction and history-append calls made so far
    supplied,   \* history: per session and field, the last non-null value supplied
    assessed,   \* history: per conversation, the assess_safety results seen
    validated,  \* history: the maps validate_required_fields found ready
    tracker,    \* the InterruptionTracker hook: session_id, interruption_count
    claim_data, \* the field map handed to validate_required_fields
    world,      \* configuration, credentials and what the claims service answers
    module_globals, \* globals() of agent.py: the instance names and their values
    created,    \* history: how often create_agent and create_nova_sonic_model ran
    sweeps      \* the cleanup_expired_sessions calls in progress, per thread

vars == <<store, now, ret, calls, supplied, assessed, validated, tracker,
         claim_data, world, module_globals, created, sweeps>>

\* what the conversation's tools are given from outside the context store
inputs == <<claim_data, world>>

\* the agent module and the threads running a sweep
process == <<module_globals, created, sweeps>>

----------------------------------------------------------------------------
(* Bounds of the exploration *)

MaxCalls == 2
MaxClock == 2 * (30 * 60) + 1

(* Program constants *)

SESSION_TTL_SECONDS == 30 * 60

----------------------------------------------------------------------------
(* Python values *)

None == <<>>
Some(v) == <<v>>
IsNone(x) == x = None
Val(x) == x[1]

\* Python truthiness of an Optional[str]: None and "" are falsy
Truthy(x) == ~IsNone(x) /\ Val(x) # ""

\* str.strip() on a sequence of characters
RECURSIVE lstrip(_)
lstrip(s) == IF s # <<>> /\ Head(s) = " " THEN lstrip(Tail(s)) ELSE s

RECURSIVE rstrip(_)
rstrip(s) ==
    IF s # <<>> /\ s[Len(s)] = " " THEN rstrip(SubSeq(s, 1, Len(s) - 1)) ELSE s

strip(s) == rstrip(lstrip(s))

\* how a call ends: with a value or with an exception
Return(v) == [kind |-> "return", value |-> v]
Raise(e) == [kind |-> "raise", exc |-> e]

----------------------------------------------------------------------------
(* Inputs *)

Sessions == {"default", "s1"}

\* occurrence_date_time arguments and what dateutil's fuzzy parser makes of them
DateInputs == {"", "no idea", "May 15th 2024", "2024-05-15T00:00:00Z"}

TextInputs == {"", "x"}
PassengerInputs == {0, 2}
NameInputs == {<<>>, <<"A">>, <<" ", "B">>}
HistoryRoles == {"user", "agent"}

ArgNames ==
    {"occurrence_date_time", "location_description", "damage_description",
     "policy_id", "drivers_license_number", "license_plate_number",
     "number_of_passengers", "was_driving", "police_filed",
     "police_receipt_available", "other_party_first_name",
     "other_party_last_name", "other_party_insurance_company",
     "other_party_insurance_id"}

ArgValues(n) ==
    CASE n = "occurrence_date_time" -> DateInputs
      [] n \in {"number_of_passengers"} -> PassengerInputs
      [] n \in {"was_driving", "police_filed", "police_receipt_available"} -> BOOLEAN
      [] n \in {"other_party_first_name", "other_party_last_name"} -> NameInputs
      [] OTHER -> TextInputs

NoArgs == [n \in ArgNames |-> None]

\* a call that supplies one argument
OneArg(n, v) == [NoArgs EXCEPT ![n] = Some(v)]

\* a call that supplies every argument
AllArgs ==
    [n \in ArgNames |->
        CASE n = "occurrence_date_time" -> Some("May 15th 2024")
          [] n = "number_of_passengers" -> Some(2)
          [] n \in {"was_driving", "police_filed"} -> Some(TRUE)
          [] n = "police_receipt_available" -> Some(FALSE)
          [] n = "other_party_first_name" -> Some(<<"A">>)
          [] n = "other_party_last_name" -> Some(<<"B">>)
          [] OTHER -> Some("x")]

ExtractArgs ==
    {NoArgs, AllArgs}
    \cup UNION {{OneArg(n, v) : v \in ArgValues(n)} : n \in ArgNames}
    \cup {[NoArgs EXCEPT !["other_party_first_name"] = Some(f),
                         !["other_party_last_name"] = Some(l)] :
            f \in NameInputs, l \in NameInputs}
    \cup {[NoArgs EXCEPT !["police_filed"] = Some(TRUE),
                         !["police_receipt_available"] = Some(r)] : r \in BOOLEAN}

\* the argument sets of the calls of a short conversation
ConversationArgs ==
    {AllArgs, OneArg("policy_id", "y")}

----------------------------------------------------------------------------
(* models/claim_schema.py *)

ClaimFields ==
    {"occurrence_date_time", "location_description", "damage_description",
     "policy_id", "drivers_license", "license_plate", "number_of_passengers",
     "was_driving", "police_filed", "police_receipt", "other_party_name",
     "other_party_insurance"}

\* variant: a new context starts with the safety gate already passed
ConversationContext_confirmed(session_id) ==
    [session_id |-> session_id,
     safety_confirmed |-> TRUE,
     current_phase |-> "safety_check",
     occurrence_date_time |-> None,
     location_description |-> None,
     damage_description |-> None,
     customer_id |-> None,
     policy_id |-> None,
     drivers_license |-> None,
     license_plate |-> None,
     number_of_passengers |-> None,
     was_driving |-> None,
     police_filed |-> None,
     police_receipt |-> None,
     other_party_name |-> None,
     other_party_insurance |-> None,
     missing_fields |-> <<>>,
     conversation_history |-> <<>>]

ConversationContext(session_id) ==
    [session_id |-> session_id,
     safety_confirmed |-> FALSE,
     current_phase |-> "safety_check",
     occurrence_date_time |-> None,
     location_description |-> None,
     damage_description |-> None,
     customer_id |-> None,
     policy_id |-> None,
     drivers_license |-> None,
     license_plate |-> None,
     number_of_passengers |-> None,
     was_driving |-> None,
     police_filed |-> None,
     police_receipt |-> None,
     other_party_name |-> None,
     other_party_insurance |-> None,
     missing_fields |-> <<>>,
     conversation_history |-> <<>>]

----------------------------------------------------------------------------
(* context.py *)

\* variant: storing an entry refreshes the timestamp of every entry
put_touching_all(st, session_id, context, current_time) ==
    [t \in DOMAIN st \cup {session_id} |->
        IF t = session_id
        THEN [context |-> context, last_accessed |-> current_time]
        ELSE [st[t] EXCEPT !.last_accessed = current_time]]

\* _context_store[session_id] = (context, current_time)
put(st, session_id, context, current_time) ==
    [t \in DOMAIN st \cup {session_id} |->
        IF t = session_id
        THEN [context |-> context, last_accessed |-> current_time]
        ELSE st[t]]

\* variant: a lookup always starts a fresh context
get_fresh_context(st, session_id, current_time) ==
    put(st, session_id, ConversationContext(session_id), current_time)

\* variant: a lookup of an entry idle for longer than the TTL starts afresh
get_unexpired_context(st, session_id, current_time) ==
    IF session_id \in DOMAIN st
         /\ current_time - st[session_id].last_accessed <= SESSION_TTL_SECONDS
    THEN put(st, session_id, st[session_id].context, current_time)
    ELSE put(st, session_id, ConversationContext(session_id), current_time)

\* the store after get_conversation_context(session_id); the call returns
\* the context stored under session_id afterwards
get_conversation_context(st, session_id, current_time) ==
    IF session_id \in DOMAIN st
    THEN put(st, session_id, st[session_id].context, current_time)
    ELSE put(st, session_id, ConversationContext(session_id), current_time)

\* variant: an entry that is already stored is left as it is
save_if_absent(st, context, current_time) ==
    IF context.session_id \in DOMAIN st THEN st
    ELSE put(st, context.session_id, context, current_time)

save_conversation_context(st, context, current_time) ==
    put(st, context.session_id, context, current_time)

\* variant: a session idle for exactly the TTL is expired too
expired_sessions_inclusive(st, current_time) ==
    {s \in DOMAIN st : current_time - st[s].last_accessed >= SESSION_TTL_SECONDS}

expired_sessions(st, current_time) ==
    {s \in DOMAIN st : current_time - st[s].last_accessed > SESSION_TTL_SECONDS}

get_active_session_count(st) == Cardinality(DOMAIN st)

\* variant: the new record is put in front of the earlier ones
with_history_record_first(context, record) ==
    [context EXCEPT !.conversation_history = <<record>> \o @]

\* context.conversation_history.append(record)
with_history_record(context, record) ==
    [context EXCEPT !.conversation_history = Append(@, record)]

\* the store after append_to_conversation_history(session_id, role, message)
append_to_conversation_history(st, session_id, role, message, current_time) ==
    LET fetched == get_conversation_context(st, session_id, current_time)
        record == [role |-> role, message |-> message, timestamp |-> current_time]
    IN save_conversation_context(
           fetched, with_history_record(fetched[session_id].context, record),
           current_time)

\* the threads that may run cleanup_expired_sessions, none of them in a sweep
Sweepers == {"t1", "t2"}

NoSweeps == [t \in Sweepers |-> [pc |-> "idle"]]

----------------------------------------------------------------------------
(* tools/extract_claim.py *)

\* dateutil parses the text (fuzzy); a naive result gets "Z" appended, an
\* aware one keeps isoformat()'s offset; unparseable text is returned as is
parse_to_iso8601(date_time_str) ==
    CASE date_time_str = "May 15th 2024" -> "2024-05-15T00:00:00Z"
      [] date_time_str = "2024-05-15T00:00:00Z" -> "2024-05-15T00:00:00+00:00"
      [] date_time_str = "2024-05-15T00:00:00+00:00" -> "2024-05-15T00:00:00+00:00"
      [] OTHER -> date_time_str

Opt(cond, phrase) == IF cond THEN <<phrase>> ELSE <<>>

\* variant: the passenger count is tested like the text fields, so 0 is missing
identify_missing_falsy_passengers(context) ==
    Opt(~Truthy(context.occurrence_date_time), "date and time of accident")
    \o Opt(~Truthy(context.location_description), "accident location")
    \o Opt(~Truthy(context.damage_description), "damage description")
    \o Opt(~Truthy(context.policy_id), "policy number")
    \o Opt(~Truthy(context.drivers_license), "driver's license number")
    \o Opt(~Truthy(context.license_plate), "license plate number")
    \o Opt(IsNone(context.number_of_passengers)
             \/ context.number_of_passengers = Some(0), "number of passengers")
    \o Opt(IsNone(context.was_driving), "whether you were driving")
    \o Opt(IsNone(context.police_filed), "whether police report was filed")
    \o Opt(context.police_filed = Some(TRUE) /\ IsNone(context.police_receipt),
           "whether you have the police report receipt")

identify_missing_required_fields(context) ==
    Opt(~Truthy(context.occurrence_date_time), "date and time of accident")
    \o Opt(~Truthy(context.location_description), "accident location")
    \o Opt(~Truthy(context.damage_description), "damage description")
    \o Opt(~Truthy(context.policy_id), "policy number")
    \o Opt(~Truthy(context.drivers_license), "driver's license number")
    \o Opt(~Truthy(context.license_plate), "license plate number")
    \o Opt(IsNone(context.number_of_passengers), "number of passengers")
    \o Opt(IsNone(context.was_driving), "whether you were driving")
    \o Opt(IsNone(context.police_filed), "whether police report was filed")
    \o Opt(context.police_filed = Some(TRUE) /\ IsNone(context.police_receipt),
           "whether you have the police report receipt")

\* first = other_party_first_name or ""; f"{first} {last}".strip()
OrEmpty(x) == IF IsNone(x) THEN <<>> ELSE Val(x)

joined_name(first, last) == strip(OrEmpty(first) \o <<" ">> \o OrEmpty(last))

\* variant: the assignment is made whether or not the argument is None
assign_always(arg, old) == arg

\* variant: the assignment is made only while the field is still unset
assign_once(arg, old) == IF IsNone(old) THEN arg ELSE old

\* one "if arg is not None: context.field = arg"
assign(arg, old) == IF ~IsNone(arg) THEN arg ELSE old

\* lines 139-177: the context after the updates of one call
updated_context(context, a) ==
    [context EXCEPT
        !.occurrence_date_time =
            IF ~IsNone(a.occurrence_date_time)
            THEN Some(parse_to_iso8601(Val(a.occurrence_date_time)))
            ELSE @,
        !.location_description = assign(a.location_description, @),
        !.damage_description = assign(a.damage_description, @),
        !.policy_id = assign(a.policy_id, @),
        !.drivers_license = assign(a.drivers_license_number, @),
        !.license_plate = assign(a.license_plate_number, @),
        !.number_of_passengers = assign(a.number_of_passengers, @),
        !.was_driving = assign(a.was_driving, @),
        !.police_filed = assign(a.police_filed, @),
        !.police_receipt = assign(a.police_receipt_available, @),
        !.other_party_name =
            IF ~IsNone(a.other_party_first_name) \/ ~IsNone(a.other_party_last_name)
            THEN Some(joined_name(a.other_party_first_name, a.other_party_last_name))
            ELSE @,
        !.other_party_insurance = assign(a.other_party_insurance_company, @)]

\* variant: the list computed by the previous call is kept
with_stale_missing_fields(context) == context

\* lines 179-181: context.missing_fields = identify_missing_required_fields(context)
with_missing_fields(context) ==
    [context EXCEPT !.missing_fields = identify_missing_required_fields(context)]

collected_fields(context) ==
    [occurrence_date_time |-> context.occurrence_date_time,
     location |-> context.location_description,
     damage |-> context.damage_description,
     policy_id |-> context.policy_id,
     drivers_license |-> context.drivers_license,
     license_plate |-> context.license_plate,
     passengers |-> context.number_of_passengers,
     was_driving |-> context.was_driving,
     police_filed |-> context.police_filed,
     police_receipt |-> context.police_receipt,
     other_party |-> context.other_party_name,
     other_party_insurance |-> context.other_party_insurance]

\* history: the value each stored field is given by the arguments of a call
given(a) ==
    [f \in ClaimFields |->
        CASE f = "occurrence_date_time" ->
                IF IsNone(a.occurrence_date_time) THEN None
                ELSE Some(parse_to_iso8601(Val(a.occurrence_date_time)))
          [] f = "drivers_license" -> a.drivers_license_number
          [] f = "license_plate" -> a.license_plate_number
          [] f = "police_receipt" -> a.police_receipt_available
          [] f = "other_party_name" ->
                IF IsNone(a.other_party_first_name) /\ IsNone(a.other_party_last_name)
                THEN None
                ELSE Some(joined_name(a.other_party_first_name, a.other_party_last_name))
          [] f = "other_party_insurance" -> a.other_party_insurance_company
          [] OTHER -> a[f]]

\* the session_id argument of a call: omitted, or an explicit id
SessionArgs == {None, Some("s1")}

\* line 105: session_id: str = "default"
session_of(session_arg) == IF IsNone(session_arg) THEN "default" ELSE Val(session_arg)

\* lines 136-184: the store after extract_claim_info(..., session_id)
extract_claim_info(st, session_id, a, current_time) ==
    LET fetched == get_conversation_context(st, session_id, current_time)
        context == with_missing_fields(
                       updated_context(fetched[session_id].context, a))
    IN save_conversation_context(fetched, context, current_time)

NothingSupplied == [f \in ClaimFields |-> None]

----------------------------------------------------------------------------
(* tools/safety_check.py *)

GUIDANCE_MEDICAL == "Please call 911 or your local emergency number immediately"
GUIDANCE_RELOCATE == "Please move to a safe location away from traffic"
GUIDANCE_POLICE == "I recommend contacting the police to file an accident report"
GUIDANCE_PROCEED == "I'm glad you're safe. Let's proceed"

\* variant: the location check is made before the medical check
assess_safety_location_first(is_safe, needs_medical, police_contacted, in_safe_location) ==
    IF ~in_safe_location
    THEN [safety_confirmed |-> FALSE, guidance |-> GUIDANCE_RELOCATE]
    ELSE IF needs_medical
    THEN [safety_confirmed |-> FALSE, guidance |-> GUIDANCE_MEDICAL]
    ELSE IF ~police_contacted
    THEN [safety_confirmed |-> TRUE, guidance |-> GUIDANCE_POLICE]
    ELSE [safety_confirmed |-> TRUE, guidance |-> GUIDANCE_PROCEED]

assess_safety(is_safe, needs_medical, police_contacted, in_safe_location) ==
    IF needs_medical
    THEN [safety_confirmed |-> FALSE, guidance |-> GUIDANCE_MEDICAL]
    ELSE IF ~in_safe_location
    THEN [safety_confirmed |-> FALSE, guidance |-> GUIDANCE_RELOCATE]
    ELSE IF ~police_contacted
    THEN [safety_confirmed |-> TRUE, guidance |-> GUIDANCE_POLICE]
    ELSE [safety_confirmed |-> TRUE, guidance |-> GUIDANCE_PROCEED]

----------------------------------------------------------------------------
(* tools/validate_fields.py *)

ClaimKeys ==
    {"location", "dateTime", "damageDescription", "policyNumber", "driversLicense",
     "numberOfPassengers", "wasDriving", "policeFiled", "policeReceipt",
     "involvedParties", "otherPartyName", "otherPartyInsurance"}

\* what the caller may put under "involvedParties": a list, or a number
PyList(items) == [list |-> items]
PyInt(n) == [int |-> n]

\* the values a key of the map may carry: null or a value of the key's type;
\* the map is untyped (Dict[str, Any]), so involvedParties need not be a list
KeyValues(k) ==
    CASE k = "numberOfPassengers" -> {None, Some(0), Some(2)}
      [] k \in {"wasDriving", "policeFiled", "policeReceipt"} ->
            {None, Some(TRUE), Some(FALSE)}
      [] k = "involvedParties" ->
            {None, Some(PyList(<<>>)), Some(PyList(<<"p">>)), Some(PyInt(0)),
             Some(PyInt(5))}
      [] OTHER -> {None, Some(""), Some("x")}

with_key(m, k, v) == [j \in DOMAIN m \cup {k} |-> IF j = k THEN v ELSE m[j]]
without_key(m, k) == [j \in DOMAIN m \ {k} |-> m[j]]

EmptyClaim == <<>>

\* a map with every required key filled and the other party's name as the
\* only other-party information
CompleteClaim ==
    [k \in ClaimKeys \ {"involvedParties", "otherPartyInsurance"} |->
        CASE k = "numberOfPassengers" -> Some(0)
          [] k = "wasDriving" -> Some(FALSE)
          [] k = "policeFiled" -> Some(TRUE)
          [] k = "policeReceipt" -> Some(FALSE)
          [] OTHER -> Some("x")]

Variants(m) ==
    {m}
        \cup UNION {{with_key(m, k, v) : v \in KeyValues(k)} : k \in ClaimKeys}
        \cup {without_key(m, k) : k \in DOMAIN m}

\* the maps within two changes of the empty and of the complete map
ClaimDataInputs ==
    UNION {Variants(m) : m \in Variants(EmptyClaim) \cup Variants(CompleteClaim)}

\* claim_data.get(k)
Get(m, k) == IF k \in DOMAIN m THEN m[k] ELSE None

\* variant: the receipt is required whether or not a report was filed
required_missing_receipt_always(data) ==
    Opt(~Truthy(Get(data, "location")), "location")
    \o Opt(~Truthy(Get(data, "dateTime")), "dateTime")
    \o Opt(~Truthy(Get(data, "damageDescription")), "damageDescription")
    \o Opt(~Truthy(Get(data, "policyNumber")), "policyNumber")
    \o Opt(~Truthy(Get(data, "driversLicense")), "driversLicense")
    \o Opt(IsNone(Get(data, "numberOfPassengers")), "numberOfPassengers")
    \o Opt(IsNone(Get(data, "wasDriving")), "wasDriving")
    \o Opt(IsNone(Get(data, "policeFiled")), "policeFiled")
    \o Opt(IsNone(Get(data, "policeReceipt")), "policeReceipt")

\* lines 44-71: the core required keys and the conditional receipt
required_missing(data) ==
    Opt(~Truthy(Get(data, "location")), "location")
    \o Opt(~Truthy(Get(data, "dateTime")), "dateTime")
    \o Opt(~Truthy(Get(data, "damageDescription")), "damageDescription")
    \o Opt(~Truthy(Get(data, "policyNumber")), "policyNumber")
    \o Opt(~Truthy(Get(data, "driversLicense")), "driversLicense")
    \o Opt(IsNone(Get(data, "numberOfPassengers")), "numberOfPassengers")
    \o Opt(IsNone(Get(data, "wasDriving")), "wasDriving")
    \o Opt(IsNone(Get(data, "policeFiled")), "policeFiled")
    \o Opt(Get(data, "policeFiled") = Some(TRUE)
             /\ IsNone(Get(data, "policeReceipt")), "policeReceipt")

\* "not x" on None, a list or a number
Falsy(x) ==
    \/ IsNone(x)
    \/ "list" \in DOMAIN Val(x) /\ Val(x).list = <<>>
    \/ "int" \in DOMAIN Val(x) /\ Val(x).int = 0

\* len(x) is defined
Sized(x) == ~IsNone(x) /\ "list" \in DOMAIN Val(x)

\* variant: both the name and the insurer are needed to count as party information
party_missing_needs_both(data) ==
    LET involved_parties == IF "involvedParties" \in DOMAIN data
                            THEN data["involvedParties"] ELSE Some(PyList(<<>>))
        has_party_info == Truthy(Get(data, "otherPartyName"))
                          /\ Truthy(Get(data, "otherPartyInsurance"))
    IN IF ~Falsy(involved_parties) /\ ~Sized(involved_parties)
       THEN Raise("TypeError")
       ELSE Return(Opt((Falsy(involved_parties)
                          \/ Len(Val(involved_parties).list) = 0)
                       /\ ~has_party_info, "involvedParties"))

\* lines 75-83: involved_parties = data.get("involvedParties", []);
\* "not involved_parties or len(involved_parties) == 0" calls len() on every
\* truthy value
party_missing(data) ==
    LET involved_parties == IF "involvedParties" \in DOMAIN data
                            THEN data["involvedParties"] ELSE Some(PyList(<<>>))
        has_party_info == Truthy(Get(data, "otherPartyName"))
                          \/ Truthy(Get(data, "otherPartyInsurance"))
    IN IF ~Falsy(involved_parties) /\ ~Sized(involved_parties)
       THEN Raise("TypeError")
       ELSE Return(Opt((Falsy(involved_parties)
                          \/ Len(Val(involved_parties).list) = 0)
                       /\ ~has_party_info, "involvedParties"))

\* the function has no try block: what party_missing raises, it raises
validate_required_fields(data) ==
    LET parties == party_missing(data)
    IN IF parties.kind = "raise" THEN parties
       ELSE LET missing_fields == required_missing(data) \o parties.value
                is_valid == Len(missing_fields) = 0
            IN Return([is_valid |-> is_valid,
                       missing_fields |-> missing_fields,
                       ready_for_submission |-> is_valid])

----------------------------------------------------------------------------
(* tools/submit_fnol.py *)

\* Python's "x or y" on Optional[str] values
Or(x, y) == IF Truthy(x) THEN x ELSE y

Endpoints == {None, Some(""), Some("https://api.example.com/fnol"), Some("fnol")}

\* url.split('/')[2] exists
HasHost(url) ==
    url \in {"https://api.example.com/fnol", "https://api.example.com/customer"}

\* response bodies: a JSON object, a JSON array, or text that is not JSON
Object(fields) == [kind |-> "object", fields |-> fields, text |-> "{...}"]

\* a policy item as the Customer API returns it, and one that is a bare string
PolicyItem ==
    [map |-> [k \in {"PK", "make", "year"} |->
                [S |-> IF k = "PK" THEN <<"P">> ELSE IF k = "make" THEN <<"H">>
                       ELSE <<"2", "0">>]]]
BarePolicy == [str |-> <<"P">>]

CustomerBodies ==
    {Object([k \in {"PK", "firstname", "lastname", "policies", "driversLicense"} |->
                CASE k = "PK" -> Some("CUSTOMER#1")
                  [] k = "firstname" -> Some(<<"J">>)
                  [] k = "lastname" -> Some(<<"D">>)
                  [] k = "policies" -> Some(<<PolicyItem>>)
                  [] OTHER -> Some([map |-> [j \in {"documentNumber"} |-> "D1"]])]),
     Object([k \in {"firstname", "policies"} |->
                IF k = "firstname" THEN Some(<<"J">>) ELSE Some(<<>>)]),
     Object([k \in {"policies"} |-> Some(<<BarePolicy>>)])}

CustomerEndpoints == {None, Some("https://api.example.com/"), Some("api")}

ResponseBodies ==
    {Object(<<>>),
     Object([k \in {"claimId"} |-> Some("CLM-1")]),
     Object([k \in {"claimId", "claimNumber"} |->
                IF k = "claimId" THEN Some("") ELSE Some("N-2")]),
     Object([k \in {"claimNumber", "referenceNumber", "id"} |->
                IF k = "claimNumber" THEN None
                ELSE IF k = "referenceNumber" THEN Some("R-3") ELSE Some("ID-4")]),
     Object([k \in {"id"} |-> Some("ID-4")]),
     Object([k \in {"message"} |-> Some("bad request")]),
     Object([k \in {"message", "error"} |->
                IF k = "message" THEN Some("") ELSE Some("denied")]),
     [kind |-> "array", text |-> "[]"],
     [kind |-> "text", text |-> "Bad Gateway"],
     [kind |-> "text", text |-> ""]}
    \cup CustomerBodies

Worlds ==
    [endpoint : Endpoints,
     customer_endpoint : CustomerEndpoints,
     region : {None, Some("us-west-2")},
     credentials : {"ok", "none", "error"},
     http : {"response", "timeout", "request_error", "error"},
     status : {200, 400},
     body : ResponseBodies]

QuietWorld ==
    [endpoint |-> None, customer_endpoint |-> None, region |-> None, credentials |-> "ok", http |-> "response",
     status |-> 200, body |-> Object(<<>>)]

\* both services configured and answering 200 with a claim id
ServingWorld ==
    [endpoint |-> Some("https://api.example.com/fnol"),
     customer_endpoint |-> Some("https://api.example.com/"),
     region |-> Some("us-west-2"), credentials |-> "ok", http |-> "response",
     status |-> 200, body |-> Object([k \in {"claimId"} |-> Some("CLM-1")])]

\* the same, but the HTTP call times out
TimeoutWorld == [ServingWorld EXCEPT !.http = "timeout"]

CompletePayload ==
    [incident |-> [occurrenceDateTime |-> "2024-05-15T00:00:00Z",
                   fnolDateTime |-> "2024-05-16T00:00:00Z",
                   location |-> [country |-> "USA", state |-> "AZ", city |-> "Phoenix",
                                 zip |-> "85001", road |-> "Main St, Phoenix AZ 85001"],
                   description |-> "x"],
     policy |-> [id |-> "x"],
     personalInformation |-> [customerId |-> "c", driversLicenseNumber |-> "x",
                              isInsurerDriver |-> TRUE, licensePlateNumber |-> "x",
                              numberOfPassengers |-> 2],
     policeReport |-> [isFiled |-> TRUE, reportOrReceiptAvailable |-> FALSE],
     otherParty |-> [firstName |-> "A", lastName |-> "B"]]

EmptyPayload ==
    [incident |-> <<>>, policy |-> <<>>, personalInformation |-> <<>>,
     policeReport |-> <<>>, otherParty |-> <<>>]

Payloads == {CompletePayload, EmptyPayload}

\* os.getenv("AWS_REGION", "us-east-1")
aws_region(w) == IF IsNone(w.region) THEN "us-east-1" ELSE Val(w.region)

\* lines 51-80: boto3 credentials, then the host taken from the URL, then
\* the signature for the region's execute-api service
get_sigv4_headers(url, credentials, region) ==
    IF credentials = "error" THEN Raise("BotoCoreError")
    ELSE IF credentials = "none" THEN Raise("Exception")
    ELSE IF ~HasHost(url) THEN Raise("IndexError")
    ELSE Return([Host |-> url, Authorization |-> <<region, "execute-api">>])

\* variant: only an unset endpoint counts as not configured
endpoint_configured_unless_unset(fnol_endpoint) == ~IsNone(fnol_endpoint)

\* lines 204-205: "if not fnol_endpoint"
endpoint_configured(fnol_endpoint) == Truthy(fnol_endpoint)

\* response_data.get(k) on a JSON object
Field(body, k) == IF k \in DOMAIN body.fields THEN body.fields[k] ELSE None

\* lines 280-285: the detail of an error response
error_detail(status, body) ==
    IF body.kind = "object"
    THEN LET named == Or(Field(body, "message"), Field(body, "error"))
         IN IF Truthy(named) THEN <<Val(named)>> ELSE <<body.text>>
    ELSE IF body.text # "" THEN <<body.text>> ELSE <<"HTTP", status>>

\* lines 240-293: the body of the try block around the POST
post_claim(fnol_payload, w, utcnow) ==
    IF w.http = "timeout" THEN Raise("TimeoutException")
    ELSE IF w.http = "request_error" THEN Raise("RequestError")
    ELSE IF w.http = "error" THEN Raise("RuntimeError")
    ELSE IF w.status = 200
    THEN IF w.body.kind = "text" THEN Raise("JSONDecodeError")
         ELSE IF w.body.kind = "array" THEN Raise("AttributeError")
         ELSE LET found == Or(Or(Or(Field(w.body, "claimId"),
                                    Field(w.body, "claimNumber")),
                                 Field(w.body, "referenceNumber")),
                              Field(w.body, "id"))
                  reference_number == IF ~Truthy(found) THEN <<"FNOL-", utcnow>>
                                      ELSE <<Val(found)>>
              IN Return([success |-> TRUE,
                         claimNumber |-> reference_number,
                         payload |-> fnol_payload,
                         message |-> <<"Your claim has been submitted successfully. Your reference number is ",
                                       reference_number>>])
    ELSE Return([success |-> FALSE,
                 error |-> <<"FNOL API returned error: ">> \o error_detail(w.status, w.body),
                 message |-> "Failed to submit claim. Please try again or use the form-based submission."])

\* variant: there is no clause for the timeout, which ends in the general one
handled_without_timeout(outcome) ==
    IF outcome.kind = "return" THEN outcome
    ELSE IF outcome.exc = "RequestError"
    THEN Return([success |-> FALSE,
                 error |-> <<"Network error: ", outcome.exc>>,
                 message |-> "Unable to connect to the claims service. Please check your connection and try again."])
    ELSE Return([success |-> FALSE,
                 error |-> <<"Unexpected error: ", outcome.exc>>,
                 message |-> "An unexpected error occurred. Please try again or contact support."])

\* variant: only the two httpx exceptions are handled
handled_httpx_only(outcome) ==
    IF outcome.kind = "return" THEN outcome
    ELSE IF outcome.exc = "TimeoutException"
    THEN Return([success |-> FALSE,
                 error |-> <<"Request timeout">>,
                 message |-> "The claim submission timed out. Please try again."])
    ELSE IF outcome.exc = "RequestError"
    THEN Return([success |-> FALSE,
                 error |-> <<"Network error: ", outcome.exc>>,
                 message |-> "Unable to connect to the claims service. Please check your connection and try again."])
    ELSE outcome

\* lines 295-317: the except clauses around the POST
handled(outcome) ==
    IF outcome.kind = "return" THEN outcome
    ELSE IF outcome.exc = "TimeoutException"
    THEN Return([success |-> FALSE,
                 error |-> <<"Request timeout">>,
                 message |-> "The claim submission timed out. Please try again."])
    ELSE IF outcome.exc = "RequestError"
    THEN Return([success |-> FALSE,
                 error |-> <<"Network error: ", outcome.exc>>,
                 message |-> "Unable to connect to the claims service. Please check your connection and try again."])
    ELSE Return([success |-> FALSE,
                 error |-> <<"Unexpected error: ", outcome.exc>>,
                 message |-> "An unexpected error occurred. Please try again or contact support."])

\* whether the call gets as far as client.post
posts(w) ==
    /\ endpoint_configured(w.endpoint)
    /\ get_sigv4_headers(Val(w.endpoint), w.credentials, aws_region(w)).kind = "return"

\* the request client.post sends, if the call gets that far
posted_request(w) ==
    IF posts(w)
    THEN Some([url |-> Val(w.endpoint),
               headers |-> get_sigv4_headers(Val(w.endpoint), w.credentials,
                                             aws_region(w)).value])
    ELSE None

submit_to_fnol_api(fnol_payload, w, utcnow) ==
    IF ~endpoint_configured(w.endpoint)
    THEN Return([success |-> FALSE,
                 error |-> <<"FNOL API endpoint not configured">>,
                 message |-> "System configuration error. Please contact support."])
    ELSE LET signed_headers == get_sigv4_headers(Val(w.endpoint), w.credentials,
                                                 aws_region(w))
         IN IF signed_headers.kind = "raise"
            THEN Return([success |-> FALSE,
                         error |-> <<"Failed to generate authentication headers: ",
                                     signed_headers.exc>>,
                         message |-> "Authentication error. Please contact support."])
            ELSE handled(post_claim(fnol_payload, w, utcnow))

----------------------------------------------------------------------------
(* tools/get_customer_info.py *)

CUSTOMER_FALLBACK_MESSAGE ==
    "I'm having trouble retrieving your information. Let me ask you a few questions to get started."

\* f"{customer_api_base.rstrip('/')}/customer"
customer_api_endpoint(customer_api_base) ==
    IF customer_api_base = "https://api.example.com/"
    THEN "https://api.example.com/customer"
    ELSE "api/customer"

\* lines 44-66: credentials, then the host taken from the URL, then signing
get_customer_sigv4_headers(url, credentials, region) ==
    IF credentials = "error" THEN Raise("BotoCoreError")
    ELSE IF credentials = "none" THEN Raise("Exception")
    ELSE IF ~HasHost(url) THEN Raise("IndexError")
    ELSE Return([Host |-> url, Authorization |-> <<region, "execute-api">>])

\* f"{d.get(k, '')}" as characters: a missing key gives '', a null gives 'None'
Text(d, k) ==
    IF k \notin DOMAIN d THEN <<>>
    ELSE IF IsNone(d[k]) THEN <<"N", "o", "n", "e">>
    ELSE Val(d[k])

\* policy.get(k, {}).get('S', '')
S(policy, k) == IF k \in DOMAIN policy THEN policy[k].S ELSE <<>>

\* lines 175-184
drivers_license_of(customer_data) ==
    LET dl == Field([fields |-> customer_data], "driversLicense")
    IN IF IsNone(dl) THEN Return(<<>>)
       ELSE IF "map" \notin DOMAIN Val(dl) THEN Raise("AttributeError")
       ELSE LET get(k) == IF k \in DOMAIN Val(dl).map THEN Val(dl).map[k] ELSE ""
            IN Return([number |-> get("documentNumber"), state |-> get("state"),
                       expirationDate |-> get("expirationDate"),
                       firstName |-> get("firstName"),
                       dateOfBirth |-> get("dateOfBirth")])

\* lines 190-202: the first policy
policy_info_of(customer_data) ==
    LET policies == Field([fields |-> customer_data], "policies")
    IN IF IsNone(policies) \/ Val(policies) = <<>> THEN Return(<<>>)
       ELSE LET policy == Val(policies)[1]
            IN IF "map" \notin DOMAIN policy THEN Raise("AttributeError")
               ELSE Return([k \in {"id", "make", "model", "color", "vin", "year",
                                    "type", "mileage"} |->
                               S(policy.map, IF k = "id" THEN "PK" ELSE k)])

\* lines 166-227: a 200 response
customer_found(body) ==
    IF body.kind = "text" THEN Raise("JSONDecodeError")
    ELSE IF body.kind = "array" THEN Raise("AttributeError")
    ELSE LET customer_data == body.fields
             customer_name == strip(Text(customer_data, "firstname") \o <<" ">>
                                    \o Text(customer_data, "lastname"))
             customer_address ==
                 strip(Text(customer_data, "street") \o <<",", " ">>
                       \o Text(customer_data, "city") \o <<",", " ">>
                       \o Text(customer_data, "state") \o <<" ">>
                       \o Text(customer_data, "zip"))
             drivers_license == drivers_license_of(customer_data)
             policy_info == policy_info_of(customer_data)
             info(k) == IF k \in DOMAIN policy_info.value
                        THEN policy_info.value[k] ELSE <<>>
             vehicle_desc == strip(info("year") \o <<" ">> \o info("color") \o <<" ">>
                                   \o info("make") \o <<" ">> \o info("model"))
         IN IF drivers_license.kind = "raise" THEN drivers_license
            ELSE IF policy_info.kind = "raise" THEN policy_info
            ELSE Return(
                [success |-> TRUE,
                 customer |-> [id |-> IF "PK" \in DOMAIN customer_data
                                      THEN customer_data["PK"] ELSE Some(""),
                               name |-> customer_name,
                               address |-> customer_address],
                 policy |-> policy_info.value,
                 driversLicense |-> drivers_license.value,
                 message |->
                    IF vehicle_desc # <<>>
                    THEN <<"I have your information on file. You're ", customer_name,
                           " and you're calling about your ", vehicle_desc,
                           ". Now, can you tell me what happened and where the accident occurred?">>
                    ELSE <<"I have your information on file. You're ", customer_name,
                           ". Can you tell me what happened and where the accident occurred?">>])

\* lines 230-235: the detail of an error response
customer_error_detail(status, body) ==
    IF body.kind = "object"
    THEN LET named == Field(body, "message")
         IN IF Truthy(named) THEN <<Val(named)>> ELSE <<body.text>>
    ELSE IF body.text # "" THEN <<body.text>> ELSE <<"HTTP", status>>

\* lines 150-243: the body of the try block
get_customer(w) ==
    LET signed_headers ==
            get_customer_sigv4_headers(customer_api_endpoint(Val(w.customer_endpoint)),
                                       w.credentials, aws_region(w))
    IN IF signed_headers.kind = "raise" THEN signed_headers
       ELSE IF w.http = "timeout" THEN Raise("TimeoutException")
       ELSE IF w.http = "request_error" THEN Raise("RequestError")
       ELSE IF w.http = "error" THEN Raise("RuntimeError")
       ELSE IF w.status = 200 THEN customer_found(w.body)
       ELSE Return([success |-> FALSE,
                    error |-> <<"Customer API returned status ", w.status, ": ">>
                              \o customer_error_detail(w.status, w.body),
                    message |-> CUSTOMER_FALLBACK_MESSAGE])

\* lines 245-267: the except clauses
customer_handled(outcome) ==
    IF outcome.kind = "return" THEN outcome
    ELSE IF outcome.exc = "TimeoutException"
    THEN Return([success |-> FALSE, error |-> <<"Request timeout">>,
                 message |-> CUSTOMER_FALLBACK_MESSAGE])
    ELSE IF outcome.exc = "RequestError"
    THEN Return([success |-> FALSE, error |-> <<"Network error: ", outcome.exc>>,
                 message |-> CUSTOMER_FALLBACK_MESSAGE])
    ELSE Return([success |-> FALSE, error |-> <<"Unexpected error: ", outcome.exc>>,
                 message |-> CUSTOMER_FALLBACK_MESSAGE])

\* whether the call gets as far as client.get
gets(w) ==
    /\ Truthy(w.customer_endpoint)
    /\ get_customer_sigv4_headers(customer_api_endpoint(Val(w.customer_endpoint)),
                                  w.credentials, aws_region(w)).kind = "return"

\* the request client.get sends, if the call gets that far
got_request(w) ==
    IF gets(w)
    THEN Some([url |-> customer_api_endpoint(Val(w.customer_endpoint)),
               headers |-> get_customer_sigv4_headers(
                               customer_api_endpoint(Val(w.customer_endpoint)),
                               w.credentials, aws_region(w)).value])
    ELSE None

get_customer_info(customer_id, w) ==
    IF ~Truthy(w.customer_endpoint)
    THEN Return([success |-> FALSE,
                 error |-> <<"Customer API endpoint not configured">>,
                 message |-> CUSTOMER_FALLBACK_MESSAGE])
    ELSE customer_handled(get_customer(w))

----------------------------------------------------------------------------
(* agent.py *)

\* InterruptionTracker.__init__
InterruptionTracker == [session_id |-> None, interruption_count |-> 0]

\* lines 94-99: the record on_interruption appends to the history
interruption_record(reason, count, timestamp) ==
    [type |-> "interruption", reason |-> reason, count |-> count,
     timestamp |-> timestamp]

\* the module after import: lines 204 and 378 have bound both instance
\* names to None
AgentModule == [n \in {"_model_instance", "_agent_instance"} |-> None]

NothingCreated == [model |-> 0, agent |-> 0]

\* lines 146-182: the model needs AWS_REGION
create_nova_sonic_model(w) ==
    IF ~Truthy(w.region) THEN Raise("ValueError")
    ELSE Return([model |-> Val(w.region)])

\* lines 195-200: what get_model returns, and the globals after it
get_model(g, w) ==
    IF "_model_instance" \notin DOMAIN g
    THEN LET made == create_nova_sonic_model(w)
         IN [outcome |-> IF made.kind = "raise" THEN made ELSE Return(Some(made.value)),
             globals |-> IF made.kind = "raise" THEN g
                         ELSE [n \in DOMAIN g \cup {"_model_instance"} |->
                                  IF n = "_model_instance" THEN Some(made.value)
                                  ELSE g[n]],
             created |-> 1]
    ELSE [outcome |-> Return(g["_model_instance"]), globals |-> g, created |-> 0]

\* lines 306-334: the agent is built around get_model(); every exception
\* is raised again as RuntimeError
create_agent(g, w) ==
    LET model == get_model(g, w)
    IN [outcome |-> IF model.outcome.kind = "raise" THEN Raise("RuntimeError")
                    ELSE Return([agent |-> model.outcome.value]),
        globals |-> model.globals,
        created |-> model.created]

\* lines 347-352: what get_agent returns, the globals after it, and the
\* number of agents and models it created
get_agent(g, w) ==
    IF "_agent_instance" \notin DOMAIN g
    THEN LET made == create_agent(g, w)
         IN [outcome |-> IF made.outcome.kind = "raise" THEN made.outcome
                         ELSE Return(Some(made.outcome.value)),
             globals |-> IF made.outcome.kind = "raise" THEN made.globals
                         ELSE [n \in DOMAIN made.globals \cup {"_agent_instance"} |->
                                  IF n = "_agent_instance" THEN Some(made.outcome.value)
                                  ELSE made.globals[n]],
             created |-> [model |-> made.created, agent |-> 1]]
    ELSE [outcome |-> Return(g["_agent_instance"]), globals |-> g,
          created |-> [model |-> 0, agent |-> 0]]

----------------------------------------------------------------------------
(* The state machine *)

Init ==
    /\ store = <<>>
    /\ now = 0
    /\ ret = [op |-> "none"]
    /\ calls = 0
    /\ supplied = [s \in Sessions |-> NothingSupplied]
    /\ assessed = [s \in Sessions |-> {}]
    /\ validated = {}
    /\ tracker = InterruptionTracker
    /\ module_globals = AgentModule
    /\ created = NothingCreated
    /\ sweeps = NoSweeps
    /\ claim_data = EmptyClaim
    /\ world = QuietWorld

\* the clock advances between calls
Tick ==
    /\ \E d \in {SESSION_TTL_SECONDS, SESSION_TTL_SECONDS + 1} :
        /\ now + d <= MaxClock
        /\ now' = now + d
    /\ UNCHANGED <<store, ret, calls, supplied, assessed, validated, tracker, inputs, process>>

GetContext ==
    \E session_id \in Sessions :
        /\ store' = get_conversation_context(store, session_id, now)
        /\ ret' = [op |-> "get_conversation_context", session_id |-> session_id,
                   value |-> store'[session_id].context,
                   was_expired |-> session_id \in expired_sessions(store, now)]
        /\ supplied' = IF session_id \in DOMAIN store THEN supplied
                       ELSE [supplied EXCEPT ![session_id] = NothingSupplied]
        /\ UNCHANGED <<now, calls, assessed, validated, tracker, inputs, process>>

\* save_conversation_context(context)
Save(context, context_from) ==
    /\ store' = save_conversation_context(store, context, now)
    /\ ret' = [op |-> "save_conversation_context",
               session_id |-> context.session_id, context_from |-> context_from]
    /\ supplied' = [supplied EXCEPT ![context.session_id] =
                        [f \in ClaimFields |-> context[f]]]
    /\ UNCHANGED <<now, calls, assessed, validated, tracker, inputs, process>>

\* the caller saves the context it fetched from the store
SaveFetchedContext ==
    \E context \in {store[s].context : s \in DOMAIN store} :
        Save(context, "get_conversation_context")

\* the caller saves a context it constructed itself
SaveNewContext ==
    \E context \in {ConversationContext(s) : s \in Sessions} :
        Save(context, "ConversationContext")

\* save_conversation_context called with the context a caller holds: the one
\* it fetched from the store, or one it constructed
SaveContext ==
    \/ SaveFetchedContext
    \/ SaveNewContext

AppendToConversationHistory ==
    \E session_id \in Sessions, role \in HistoryRoles :
        /\ calls < MaxCalls
        /\ calls' = calls + 1
        /\ store' = append_to_conversation_history(store, session_id, role, "m", now)
        /\ ret' = [op |-> "append_to_conversation_history",
                   session_id |-> session_id]
        /\ supplied' = IF session_id \in DOMAIN store THEN supplied
                       ELSE [supplied EXCEPT ![session_id] = NothingSupplied]
        /\ UNCHANGED <<now, assessed, validated, tracker, inputs, process>>

Extract(session_id, a) ==
    /\ calls < MaxCalls
    /\ calls' = calls + 1
    /\ store' = extract_claim_info(store, session_id, a, now)
    /\ LET context == store'[session_id].context
       IN ret' = [op |-> "extract_claim_info", session_id |-> session_id,
                  args |-> a, status |-> "updated",
                  collected_fields |-> collected_fields(context),
                  missing_fields |-> context.missing_fields]
    /\ supplied' = [supplied EXCEPT ![session_id] =
                        [f \in ClaimFields |->
                            IF IsNone(given(a)[f]) THEN @[f] ELSE given(a)[f]]]
    /\ UNCHANGED <<now, assessed, validated, tracker, inputs, process>>

\* extract_claim_info with any of the argument sets, with or without a
\* session id
ExtractClaimInfo ==
    \E session_arg \in SessionArgs, a \in ExtractArgs :
        Extract(session_of(session_arg), a)

\* extract_claim_info as one turn of a conversation
ExtractInConversation ==
    \E session_arg \in SessionArgs, a \in ConversationArgs :
        Extract(session_of(session_arg), a)

CleanupExpiredSessions ==
    /\ store' = [s \in DOMAIN store \ expired_sessions(store, now) |-> store[s]]
    /\ ret' = [op |-> "cleanup_expired_sessions",
               value |-> Cardinality(expired_sessions(store, now))]
    /\ supplied' = [s \in Sessions |->
                        IF s \in expired_sessions(store, now)
                        THEN NothingSupplied ELSE supplied[s]]
    /\ UNCHANGED <<now, calls, assessed, validated, tracker, inputs, process>>

ClearAllSessions ==
    /\ store' = <<>>
    /\ ret' = [op |-> "clear_all_sessions"]
    /\ supplied' = [s \in Sessions |-> NothingSupplied]
    /\ UNCHANGED <<now, calls, assessed, validated, tracker, inputs, process>>

\* the runtime calls assess_safety in the conversation of session_id
Assess(session_id, is_safe, needs_medical, police_contacted, in_safe_location) ==
    LET result == assess_safety(is_safe, needs_medical, police_contacted,
                                in_safe_location)
    IN /\ ret' = [op |-> "assess_safety", session_id |-> session_id,
                  is_safe |-> is_safe, needs_medical |-> needs_medical,
                  police_contacted |-> police_contacted,
                  in_safe_location |-> in_safe_location,
                  safety_confirmed |-> result.safety_confirmed,
                  guidance |-> result.guidance]
       /\ assessed' = [assessed EXCEPT ![session_id] =
                           @ \cup {result.safety_confirmed}]
       /\ UNCHANGED <<store, now, calls, supplied, validated, tracker, inputs, process>>

\* assess_safety with every combination of the four flags
AssessSafety ==
    \E session_id \in Sessions, is_safe \in BOOLEAN, needs_medical \in BOOLEAN,
       police_contacted \in BOOLEAN, in_safe_location \in BOOLEAN :
        Assess(session_id, is_safe, needs_medical, police_contacted, in_safe_location)

\* assess_safety as one turn of a conversation: an answer that confirms and
\* one that blocks
AssessInConversation ==
    \E session_id \in Sessions, needs_medical \in BOOLEAN :
        Assess(session_id, TRUE, needs_medical, TRUE, TRUE)

\* InterruptionTracker.set_session_id
SetSessionId ==
    \E session_id \in Sessions :
        /\ tracker' = [session_id |-> Some(session_id), interruption_count |-> 0]
        /\ ret' = [op |-> "set_session_id", session_id |-> session_id]
        /\ UNCHANGED <<store, now, calls, supplied, assessed, validated, inputs, process>>

\* InterruptionTracker.on_interruption: the count goes up; with a session
\* id set, the session's context is fetched, given one more history record
\* and saved
OnInterruption ==
    \E timestamp \in {None, Some(now)} :
        /\ calls < MaxCalls
        /\ calls' = calls + 1
        /\ tracker' = [tracker EXCEPT !.interruption_count = @ + 1]
        /\ ret' = [op |-> "on_interruption", tracked |-> tracker.session_id]
        /\ IF Truthy(tracker.session_id)
           THEN LET session_id == Val(tracker.session_id)
                    fetched == get_conversation_context(store, session_id, now)
                    context == fetched[session_id].context
                    record == interruption_record("user_speech",
                                                  tracker'.interruption_count,
                                                  timestamp)
                IN /\ store' = save_conversation_context(
                                   fetched, with_history_record(context, record), now)
                   /\ supplied' = IF session_id \in DOMAIN store THEN supplied
                                  ELSE [supplied EXCEPT ![session_id] = NothingSupplied]
           ELSE UNCHANGED <<store, supplied>>
        /\ UNCHANGED <<now, assessed, validated, inputs, process>>

\* the context store under its clock
Next ==
    \/ Tick
    \/ GetContext
    \/ SaveContext
    \/ AppendToConversationHistory
    \/ ExtractInConversation
    \/ CleanupExpiredSessions
    \/ ClearAllSessions

Spec == Init /\ [][Next]_vars

\* claim extraction with every argument set
NextExtract ==
    \/ ExtractClaimInfo
    \/ ClearAllSessions

SpecExtract == Init /\ [][NextExtract]_vars

\* the tools a conversation calls, in any order the runtime issues them
NextConversation ==
    \/ AssessSafety
    \/ ExtractInConversation

SpecConversation == Init /\ [][NextConversation]_vars

\* validate_required_fields on the map at hand
ValidateRequiredFields ==
    LET outcome == validate_required_fields(claim_data)
    IN /\ ret' = [op |-> "validate_required_fields", claim_data |-> claim_data,
                  outcome |-> outcome]
       /\ validated' = IF outcome.kind = "return" /\ outcome.value.ready_for_submission
                       THEN validated \cup {claim_data} ELSE validated
       /\ UNCHANGED <<store, now, calls, supplied, assessed, tracker, inputs, process>>

InitValidate ==
    /\ store = <<>>
    /\ now = 0
    /\ ret = [op |-> "none"]
    /\ calls = 0
    /\ supplied = [s \in Sessions |-> NothingSupplied]
    /\ assessed = [s \in Sessions |-> {}]
    /\ validated = {}
    /\ tracker = InterruptionTracker
    /\ module_globals = AgentModule
    /\ created = NothingCreated
    /\ sweeps = NoSweeps
    /\ claim_data \in ClaimDataInputs
    /\ world = QuietWorld

NextValidate == ValidateRequiredFields

SpecValidate == InitValidate /\ [][NextValidate]_vars

\* submit_to_fnol_api in the world at hand
SubmitToFnolApi ==
    \E fnol_payload \in Payloads :
        /\ ret' = [op |-> "submit_to_fnol_api", payload |-> fnol_payload,
                   posted |-> posts(world), request |-> posted_request(world),
                   outcome |-> submit_to_fnol_api(fnol_payload, world, now)]
        /\ UNCHANGED <<store, now, calls, supplied, assessed, validated, tracker, inputs, process>>

InitSubmit ==
    /\ store = <<>>
    /\ now = 0
    /\ ret = [op |-> "none"]
    /\ calls = 0
    /\ supplied = [s \in Sessions |-> NothingSupplied]
    /\ assessed = [s \in Sessions |-> {}]
    /\ validated = {}
    /\ tracker = InterruptionTracker
    /\ module_globals = AgentModule
    /\ created = NothingCreated
    /\ sweeps = NoSweeps
    /\ claim_data = EmptyClaim
    /\ world \in Worlds

\* get_customer_info in the world at hand
GetCustomerInfo ==
    \E customer_id \in {"c"} :
        /\ ret' = [op |-> "get_customer_info", customer_id |-> customer_id,
                   requested |-> gets(world), request |-> got_request(world),
                   outcome |-> get_customer_info(customer_id, world)]
        /\ UNCHANGED <<store, now, calls, supplied, assessed, validated, tracker, inputs, process>>

NextSubmit ==
    \/ SubmitToFnolApi
    \/ GetCustomerInfo

SpecSubmit == InitSubmit /\ [][NextSubmit]_vars

\* one claim from collection to submission: the runtime calls the tools in
\* whatever order the model asks for them
InitClaim ==
    /\ store = <<>>
    /\ now = 0
    /\ ret = [op |-> "none"]
    /\ calls = 0
    /\ supplied = [s \in Sessions |-> NothingSupplied]
    /\ assessed = [s \in Sessions |-> {}]
    /\ validated = {}
    /\ tracker = InterruptionTracker
    /\ module_globals = AgentModule
    /\ created = NothingCreated
    /\ sweeps = NoSweeps
    /\ claim_data \in {EmptyClaim, CompleteClaim}
    /\ world \in {QuietWorld, ServingWorld, TimeoutWorld}

NextClaim ==
    \/ ExtractInConversation
    \/ ValidateRequiredFields
    \/ SubmitToFnolApi

SpecClaim == InitClaim /\ [][NextClaim]_vars

\* everything that can happen to a session while it is stored: the context
\* operations, the interruption hook and the tools
NextSession ==
    \/ GetContext
    \/ SaveContext
    \/ AppendToConversationHistory
    \/ ExtractInConversation
    \/ SetSessionId
    \/ OnInterruption
    \/ ValidateRequiredFields
    \/ SubmitToFnolApi
    \/ GetCustomerInfo
    \/ ClearAllSessions

SpecSession == Init /\ [][NextSession]_vars

\* lines 104-110 of cleanup_expired_sessions run by thread t: the sweep
\* reads the clock and lists the sessions that are expired at that time
SweepIdentify(t) ==
    /\ sweeps[t].pc = "idle"
    /\ sweeps' = [sweeps EXCEPT ![t] =
                     [pc |-> "remove",
                      current_time |-> now,
                      expired_sessions |-> expired_sessions(store, now),
                      len |-> Cardinality(expired_sessions(store, now)),
                      removed |-> 0]]
    /\ UNCHANGED <<store, now, ret, calls, supplied, assessed, validated,
                   tracker, inputs, module_globals, created>>

\* lines 113-114, one iteration: del _context_store[session_id] deletes the
\* entry stored under the listed id now, and raises KeyError if there is none
SweepDelete(t) ==
    /\ sweeps[t].pc = "remove"
    /\ \E session_id \in sweeps[t].expired_sessions :
          IF session_id \in DOMAIN store
          THEN /\ store' = [s \in DOMAIN store \ {session_id} |-> store[s]]
               /\ supplied' = [supplied EXCEPT ![session_id] = NothingSupplied]
               /\ sweeps' = [sweeps EXCEPT
                               ![t].expired_sessions = @ \ {session_id},
                               ![t].removed = @ + 1]
               /\ UNCHANGED ret
          ELSE /\ ret' = [op |-> "cleanup_expired_sessions", thread |-> t,
                          outcome |-> Raise("KeyError"),
                          removed |-> sweeps[t].removed]
               /\ sweeps' = [sweeps EXCEPT ![t] = [pc |-> "idle"]]
               /\ UNCHANGED <<store, supplied>>
    /\ UNCHANGED <<now, calls, assessed, validated, tracker, inputs,
                   module_globals, created>>

\* line 116: return len(expired_sessions)
SweepReturn(t) ==
    /\ sweeps[t].pc = "remove"
    /\ sweeps[t].expired_sessions = {}
    /\ ret' = [op |-> "cleanup_expired_sessions", thread |-> t,
               outcome |-> Return(sweeps[t].len),
               removed |-> sweeps[t].removed]
    /\ sweeps' = [sweeps EXCEPT ![t] = [pc |-> "idle"]]
    /\ UNCHANGED <<store, now, calls, supplied, assessed, validated, tracker,
                   inputs, module_globals, created>>

\* sweeps of two threads interleaved with lookups, saves and extractions
NextSweep ==
    \/ Tick
    \/ GetContext
    \/ SaveContext
    \/ ExtractInConversation
    \/ \E t \in Sweepers : SweepIdentify(t)
    \/ \E t \in Sweepers : SweepDelete(t)
    \/ \E t \in Sweepers : SweepReturn(t)

SpecSweep == Init /\ [][NextSweep]_vars

\* get_model()
GetModel ==
    LET call == get_model(module_globals, world)
    IN /\ ret' = [op |-> "get_model", outcome |-> call.outcome]
       /\ module_globals' = call.globals
       /\ created' = [created EXCEPT !.model = @ + call.created]
       /\ UNCHANGED <<store, now, calls, supplied, assessed, validated, tracker,
                      inputs, sweeps>>

\* get_agent()
GetAgent ==
    LET call == get_agent(module_globals, world)
    IN /\ ret' = [op |-> "get_agent", outcome |-> call.outcome]
       /\ module_globals' = call.globals
       /\ created' = [model |-> created.model + call.created.model,
                      agent |-> created.agent + call.created.agent]
       /\ UNCHANGED <<store, now, calls, supplied, assessed, validated, tracker,
                      inputs, sweeps>>

\* app_agentcore.websocket_handler: the connection gets the agent and runs
\* it; agent.run on None raises AttributeError, and every exception closes
\* the socket with code 1011
WebsocketHandler ==
    \E session_id \in Sessions :
        LET call == get_agent(module_globals, world)
        IN /\ ret' = [op |-> "websocket_handler", session_id |-> session_id,
                      agent |-> call.outcome,
                      closed |-> IF call.outcome.kind = "raise"
                                    \/ IsNone(call.outcome.value)
                                 THEN Some(1011) ELSE None]
           /\ module_globals' = call.globals
           /\ created' = [model |-> created.model + call.created.model,
                          agent |-> created.agent + call.created.agent]
           /\ UNCHANGED <<store, now, calls, supplied, assessed, validated, tracker,
                          inputs, sweeps>>

\* the agent module in a process with any configuration
NextAgent ==
    \/ GetModel
    \/ GetAgent
    \/ WebsocketHandler

SpecAgent == InitSubmit /\ [][NextAgent]_vars

\* the safety gate among the tools and hooks of a conversation
NextGate ==
    \/ AssessInConversation
    \/ AppendToConversationHistory
    \/ ExtractInConversation
    \/ SetSessionId
    \/ OnInterruption
    \/ ValidateRequiredFields
    \/ SubmitToFnolApi
    \/ GetCustomerInfo

SpecGate == Init /\ [][NextGate]_vars

----------------------------------------------------------------------------
(* Claims about extract_claim_info *)

\* the argument that feeds each directly assigned field
ArgOf(f) ==
    CASE f = "drivers_license" -> "drivers_license_number"
      [] f = "license_plate" -> "license_plate_number"
      [] f = "police_receipt" -> "police_receipt_available"
      [] f = "other_party_insurance" -> "other_party_insurance_company"
      [] OTHER -> f

DirectFields == ClaimFields \ {"other_party_name"}

ContextBefore(session_id) ==
    IF session_id \in DOMAIN store THEN store[session_id].context
    ELSE ConversationContext(session_id)

\* C1: on every extract_claim_info call, a field whose argument is None keeps
\* its stored value, a field whose argument is non-null holds the supplied
\* value (the normalized one for the date/time), and other_party_name is
\* unchanged when both name arguments are None.
C1_PartialUpdate ==
    [][ret'.op = "extract_claim_info" /\ calls' = calls + 1 =>
        LET a == ret'.args
            old == ContextBefore(ret'.session_id)
            new == store'[ret'.session_id].context
        IN /\ \A f \in DirectFields :
                /\ IsNone(a[ArgOf(f)]) => new[f] = old[f]
                /\ ~IsNone(a[ArgOf(f)]) =>
                      new[f] = IF f = "occurrence_date_time"
                               THEN Some(parse_to_iso8601(Val(a[f])))
                               ELSE a[ArgOf(f)]
           /\ IsNone(a.other_party_first_name) /\ IsNone(a.other_party_last_name)
                 => new.other_party_name = old.other_party_name]_vars

\* a second call that leaves an earlier policy id alone and stores a location
C1_Witness ==
    /\ ret.op = "extract_claim_info"
    /\ calls = 2
    /\ IsNone(ret.args.policy_id)
    /\ store[ret.session_id].context.policy_id = Some("x")
    /\ ret.args.location_description = Some("")
    /\ store[ret.session_id].context.location_description = Some("")

\* C2: within a session every stored field equals the value given by the
\* most recent call that supplied it (None if no call did): last write wins
\* and no earlier value comes back.
C2_LastWriteWins ==
    \A s \in DOMAIN store : \A f \in ClaimFields :
        store[s].context[f] = supplied[s][f]

\* the first call set every field, the second replaced the policy id only
C2_Witness ==
    /\ ret.op = "extract_claim_info"
    /\ calls = 2
    /\ ret.args = OneArg("policy_id", "")
    /\ store[ret.session_id].context.policy_id = Some("")
    /\ store[ret.session_id].context.damage_description = Some("x")
    /\ store[ret.session_id].context.was_driving = Some(TRUE)

\* the context-shaped checklist, in its fixed order
C3_Order ==
    << <<"occurrence_date_time", "date and time of accident">>,
       <<"location_description", "accident location">>,
       <<"damage_description", "damage description">>,
       <<"policy_id", "policy number">>,
       <<"drivers_license", "driver's license number">>,
       <<"license_plate", "license plate number">>,
       <<"number_of_passengers", "number of passengers">>,
       <<"was_driving", "whether you were driving">>,
       <<"police_filed", "whether police report was filed">>,
       <<"police_receipt", "whether you have the police report receipt">> >>

C3_Missing(c, f) ==
    CASE f \in {"occurrence_date_time", "location_description", "damage_description",
                "policy_id", "drivers_license", "license_plate"} ->
            IsNone(c[f]) \/ c[f] = Some("")
      [] f = "police_receipt" ->
            c.police_filed = Some(TRUE) /\ IsNone(c.police_receipt)
      [] OTHER -> IsNone(c[f])

C3_Checklist(c) ==
    LET picked == SelectSeq(C3_Order, LAMBDA e : C3_Missing(c, e[1]))
    IN [i \in 1..Len(picked) |-> picked[i][2]]

\* C3: the missing_fields returned by an extraction call, and the list saved
\* in the context, are the checklist evaluated on the context as stored after
\* the call, in the fixed order; the receipt phrase is there iff police_filed
\* is true and police_receipt is None.
C3_MissingFieldsCurrent ==
    ret.op = "extract_claim_info" /\ ret.session_id \in DOMAIN store =>
        LET c == store[ret.session_id].context
            receipt == "whether you have the police report receipt"
        IN /\ ret.missing_fields = C3_Checklist(c)
           /\ c.missing_fields = C3_Checklist(c)
           /\ (\E i \in 1..Len(ret.missing_fields) : ret.missing_fields[i] = receipt)
                 <=> (c.police_filed = Some(TRUE) /\ IsNone(c.police_receipt))

\* police report filed, receipt not yet known: the receipt phrase comes last
C3_Witness ==
    /\ ret.op = "extract_claim_info"
    /\ calls = 2
    /\ ret.session_id \in DOMAIN store
    /\ store[ret.session_id].context.police_filed = Some(TRUE)
    /\ IsNone(store[ret.session_id].context.police_receipt)
    /\ store[ret.session_id].context.policy_id = Some("x")
    /\ ret.missing_fields # <<>>
    /\ ret.missing_fields[Len(ret.missing_fields)] =
           "whether you have the police report receipt"

\* the always-required fields: the six text fields, then the three others
C19_TextFields == {1, 2, 3, 4, 5, 6}
C19_Required == 1..9

C19_Listed(missing, phrase) == \E i \in 1..Len(missing) : missing[i] = phrase

\* C19 as stated: in the check made on the stored context, a required field
\* is not reported iff its stored value is non-null, whatever the value.
C19_PresentIffNonNull ==
    ret.op = "extract_claim_info" /\ ret.session_id \in DOMAIN store =>
        LET c == store[ret.session_id].context
        IN \A i \in C19_Required :
              ~C19_Listed(ret.missing_fields, C3_Order[i][2])
                 <=> ~IsNone(c[C3_Order[i][1]])

\* C19 as amended: a text field is not reported iff its value is non-null
\* and not the empty string; the passenger count and the two flags are not
\* reported iff non-null, so 0 and false count as present.
C19_PresentIffFilled ==
    ret.op = "extract_claim_info" /\ ret.session_id \in DOMAIN store =>
        LET c == store[ret.session_id].context
        IN \A i \in C19_Required :
              ~C19_Listed(ret.missing_fields, C3_Order[i][2])
                 <=> /\ ~IsNone(c[C3_Order[i][1]])
                     /\ i \in C19_TextFields => c[C3_Order[i][1]] # Some("")

\* an empty location is reported, a passenger count of 0 is not
C19_Witness ==
    /\ ret.op = "extract_claim_info"
    /\ ret.session_id \in DOMAIN store
    /\ store[ret.session_id].context.location_description = Some("")
    /\ store[ret.session_id].context.number_of_passengers = Some(0)
    /\ C19_Listed(ret.missing_fields, "accident location")
    /\ ~C19_Listed(ret.missing_fields, "number of passengers")

\* the ISO-8601 strings among the inputs and outputs; each ends in a
\* timezone indicator
C25_IsoStrings == {"2024-05-15T00:00:00Z", "2024-05-15T00:00:00+00:00"}

\* C25: an extraction given a literal ISO-8601 string stores that very
\* string; whatever an extraction stores after a successful normalization
\* ends in a timezone indicator and is returned unchanged when normalized
\* again.
C25_IsoStoredAsGiven ==
    ret.op = "extract_claim_info" /\ ret.session_id \in DOMAIN store
        /\ ~IsNone(ret.args.occurrence_date_time) =>
        LET given_text == Val(ret.args.occurrence_date_time)
            stored == Val(store[ret.session_id].context.occurrence_date_time)
        IN /\ given_text \in C25_IsoStrings => stored = given_text
           /\ stored # given_text \/ given_text \in C25_IsoStrings =>
                 /\ stored \in C25_IsoStrings
                 /\ parse_to_iso8601(stored) = stored

\* the key of collected_fields under which a context field is returned
C28_Key(f) ==
    CASE f = "location_description" -> "location"
      [] f = "damage_description" -> "damage"
      [] f = "number_of_passengers" -> "passengers"
      [] f = "other_party_name" -> "other_party"
      [] OTHER -> f

----------------------------------------------------------------------------
(* Claims about the context store *)

\* C4: a sweep removes every session last accessed more than the TTL ago,
\* leaves the others with their entries unchanged and returns the number it
\* removed; every get, save, extraction and history append is an access.
C4_SweepRemovesExpiredOnly ==
    [][/\ CleanupExpiredSessions =>
            /\ \A s \in DOMAIN store :
                  IF now - store[s].last_accessed > 30 * 60
                  THEN s \notin DOMAIN store'
                  ELSE s \in DOMAIN store' /\ store'[s] = store[s]
            /\ DOMAIN store' \subseteq DOMAIN store
            /\ ret'.value = Cardinality(DOMAIN store) - Cardinality(DOMAIN store')
       /\ (GetContext \/ SaveContext \/ AppendToConversationHistory
             \/ ExtractInConversation) =>
            store'[ret'.session_id].last_accessed = now]_vars

\* a sweep that removed one session and left one that was idle for exactly the TTL
C4_Witness ==
    /\ ret.op = "cleanup_expired_sessions"
    /\ ret.value = 1
    /\ \E s \in DOMAIN store : now - store[s].last_accessed = SESSION_TTL_SECONDS

\* C5: a lookup returns the stored context unchanged, refreshing only that
\* session's timestamp and adding no entry, or creates, stores and returns
\* the default context; the session count is the number of stored ids and
\* is 0 after clear_all_sessions.
C5_GetReturnsStoredOrDefault ==
    [][/\ GetContext =>
            LET s == ret'.session_id
            IN /\ \A t \in DOMAIN store \ {s} : t \in DOMAIN store' /\ store'[t] = store[t]
               /\ store'[s].last_accessed = now
               /\ store'[s].context = ret'.value
               /\ IF s \in DOMAIN store
                  THEN /\ ret'.value = store[s].context
                       /\ get_active_session_count(store') = get_active_session_count(store)
                  ELSE /\ ret'.value.session_id = s
                       /\ ret'.value.safety_confirmed = FALSE
                       /\ ret'.value.current_phase = "safety_check"
                       /\ ret'.value.missing_fields = <<>>
                       /\ ret'.value.conversation_history = <<>>
                       /\ \A f \in ClaimFields : IsNone(ret'.value[f])
                       /\ get_active_session_count(store')
                             = get_active_session_count(store) + 1
       /\ ClearAllSessions => get_active_session_count(store') = 0
       /\ get_active_session_count(store')
             = Cardinality({s \in Sessions : s \in DOMAIN store'})]_vars

\* a lookup that returned a context holding collected data
C5_Witness ==
    /\ ret.op = "get_conversation_context"
    /\ ret.value.policy_id = Some("y")
    /\ Cardinality(DOMAIN store) = 2

\* C29: expiry takes effect only when a sweep runs: a lookup of a stored
\* session idle for longer than the TTL returns the stored context with all
\* its fields, not a fresh one, and refreshes its last access, so that a
\* sweep following it within the TTL keeps the session; no operation other than
\* cleanup_expired_sessions and clear_all_sessions removes an entry.
C29_ExpiryOnlyBySweep ==
    [][/\ GetContext =>
            \A s \in expired_sessions(store, now) :
                ret'.session_id = s =>
                    /\ ret'.value = store[s].context
                    /\ store'[s].context = store[s].context
                    /\ store'[s].last_accessed = now'
                    /\ s \notin expired_sessions(store', now')
       /\ (CleanupExpiredSessions /\ ret.op = "get_conversation_context"
             /\ ret.was_expired) =>
            (now - store[ret.session_id].last_accessed <= SESSION_TTL_SECONDS =>
                /\ ret.session_id \in DOMAIN store'
                /\ store'[ret.session_id] = store[ret.session_id])
       /\ ~(DOMAIN store \subseteq DOMAIN store') =>
            ret'.op \in {"cleanup_expired_sessions", "clear_all_sessions"}]_vars

\* a lookup of a session idle for longer than the TTL returned the data
\* collected in it, and the session is stored as accessed now
C29_Witness ==
    /\ ret.op = "get_conversation_context"
    /\ ret.was_expired
    /\ ret.value.policy_id = Some("y")
    /\ ret.session_id \in DOMAIN store
    /\ store[ret.session_id].last_accessed = now
    /\ now > SESSION_TTL_SECONDS

\* C30: however a sweep is interleaved with lookups, saves, extractions and
\* another sweep, it removes no session whose last access, at the moment of
\* the removal, is within the TTL, it does not fail because the store changed
\* between its two passes, and it returns the number of entries it removed.
C30_SweepSafeUnderInterleaving ==
    [][\A t \in Sweepers :
          /\ SweepDelete(t) =>
                /\ \A s \in DOMAIN store \ DOMAIN store' :
                      now - store[s].last_accessed > SESSION_TTL_SECONDS
                /\ sweeps'[t].pc = "remove"
          /\ SweepReturn(t) =>
                ret'.outcome = Return(ret'.removed)]_vars

\* the contexts a caller may hand to save_conversation_context
C22_Contexts ==
    {store[s].context : s \in DOMAIN store} \cup {ConversationContext(s) : s \in Sessions}

\* C22: save_conversation_context(c) stores c under c.session_id with the
\* current time, adding the entry if the id was not stored and replacing it
\* otherwise, and leaves every other entry as it was; a
\* get_conversation_context of that id right after the save returns a
\* context equal to c in every field.
C22_SaveThenGet ==
    [][/\ \A c \in C22_Contexts :
              Save(c, "get_conversation_context") \/ Save(c, "ConversationContext") =>
                 /\ DOMAIN store' = DOMAIN store \cup {c.session_id}
                 /\ store'[c.session_id] = [context |-> c, last_accessed |-> now]
                 /\ \A t \in DOMAIN store \ {c.session_id} : store'[t] = store[t]
                 /\ get_conversation_context(store', c.session_id, now)
                        [c.session_id].context = c
       /\ GetContext /\ ret.op = "save_conversation_context"
              /\ ret'.session_id = ret.session_id =>
                 ret'.value = store[ret.session_id].context]_vars

\* a default context saved over session s1 at a later time, while the default
\* session keeps its data and its older timestamp
C22_Witness ==
    /\ ret.op = "save_conversation_context"
    /\ ret.session_id = "s1"
    /\ ret.context_from = "ConversationContext"
    /\ store["s1"] = [context |-> ConversationContext("s1"), last_accessed |-> now]
    /\ now > 0
    /\ "default" \in DOMAIN store
    /\ store["default"].context.policy_id = Some("y")
    /\ store["default"].last_accessed = 0

\* the operations a caller may issue on session s
C24_Ops(s) ==
    {[f |-> "get", s |-> s],
     [f |-> "save", s |-> s, c |-> ConversationContext(s)],
     [f |-> "extract", s |-> s, a |-> AllArgs],
     [f |-> "append", s |-> s, role |-> "user"]}

\* the store after the operation
C24_Apply(op, st) ==
    CASE op.f = "get" -> get_conversation_context(st, op.s, now)
      [] op.f = "save" -> save_conversation_context(st, op.c, now)
      [] op.f = "extract" -> extract_claim_info(st, op.s, op.a, now)
      [] op.f = "append" -> append_to_conversation_history(st, op.s, op.role, "m", now)

\* the store holding session s only
C24_Only(st, s) == [t \in DOMAIN st \cap {s} |-> st[t]]

\* the operation leaves the entry of session t, stored or not, as it was
C24_Untouched(op, t) ==
    LET after == C24_Apply(op, store)
    IN IF t \in DOMAIN store
       THEN t \in DOMAIN after /\ after[t] = store[t]
       ELSE t \notin DOMAIN after

\* C24: at every reachable store, a get, save, extraction or history append
\* on one session leaves every other session's entry (context and timestamp)
\* as it was; and two operations on different sessions leave each session
\* with the context it gets when its own operation runs alone, in whichever
\* order they run.
C24_SessionsIndependent ==
    /\ \A opA \in C24_Ops("default") : C24_Untouched(opA, "s1")
    /\ \A opB \in C24_Ops("s1") : C24_Untouched(opB, "default")
    /\ \A opA \in C24_Ops("default") :
          LET a == C24_Apply(opA, store)
              alone_a == C24_Apply(opA, C24_Only(store, "default"))["default"].context
          IN \A opB \in C24_Ops("s1") :
                LET b == C24_Apply(opB, store)
                    alone_b == C24_Apply(opB, C24_Only(store, "s1"))["s1"].context
                    ab == C24_Apply(opB, a)
                    ba == C24_Apply(opA, b)
                IN /\ ab["default"].context = alone_a
                   /\ ba["default"].context = alone_a
                   /\ ab["s1"].context = alone_b
                   /\ ba["s1"].context = alone_b

\* session s1 was used later than the default session, which keeps its data
\* and its older timestamp
C24_Witness ==
    /\ ret.op = "extract_claim_info"
    /\ ret.session_id = "s1"
    /\ now > 0
    /\ store["s1"].last_accessed = now
    /\ store["s1"].context.damage_description = Some("x")
    /\ "default" \in DOMAIN store
    /\ store["default"].last_accessed = 0
    /\ store["default"].context.policy_id = Some("y")
    /\ IsNone(store["default"].context.damage_description)

\* C20: while a session stays in the store, a claim field that holds a value
\* keeps holding one through every get, save of the fetched context,
\* extraction, history append, interruption and other tool call; and its
\* value changes only in an extract_claim_info call on that session.
C20_SetFieldsStaySet ==
    [][~(ret'.op = "save_conversation_context"
           /\ ret'.context_from = "ConversationContext") =>
        \A s \in DOMAIN store \cap DOMAIN store' : \A f \in ClaimFields :
            LET old == store[s].context[f]
                new == store'[s].context[f]
            IN ~IsNone(old) =>
                  /\ ~IsNone(new)
                  /\ new # old =>
                        ret'.op = "extract_claim_info" /\ ret'.session_id = s]_vars

\* an interruption recorded in a session whose policy id had been replaced
C20_Witness ==
    /\ ret.op = "on_interruption"
    /\ ret.tracked = Some("s1")
    /\ "s1" \in DOMAIN store
    /\ store["s1"].context.policy_id = Some("y")
    /\ Len(store["s1"].context.conversation_history) = 1

\* the history of a session, empty if the session is not stored
HistoryOf(st, s) ==
    IF s \in DOMAIN st THEN st[s].context.conversation_history ELSE <<>>

IsPrefix(h, g) == Len(h) <= Len(g) /\ SubSeq(g, 1, Len(h)) = h

\* a history append adds one message record at the end, creating the session
\* if needed; the interruption hook adds one interruption record at the end
\* when a session id is set, and leaves the store alone otherwise
C23_OneRecordAtTheEnd ==
    /\ ret'.op = "append_to_conversation_history" /\ calls' = calls + 1 =>
          LET s == ret'.session_id
          IN /\ s \in DOMAIN store'
             /\ \E role \in HistoryRoles :
                   HistoryOf(store', s) =
                      Append(HistoryOf(store, s),
                             [role |-> role, message |-> "m", timestamp |-> now])
    /\ ret'.op = "on_interruption" /\ calls' = calls + 1 =>
          IF Truthy(tracker.session_id)
          THEN LET s == Val(tracker.session_id)
                   h == HistoryOf(store', s)
               IN /\ s \in DOMAIN store'
                  /\ Len(h) = Len(HistoryOf(store, s)) + 1
                  /\ IsPrefix(HistoryOf(store, s), h)
                  /\ h[Len(h)].type = "interruption"
                  /\ h[Len(h)].count = tracker'.interruption_count
          ELSE store' = store

\* C23 as stated: appends add one record at the end, and over every step the
\* history of a session that stays stored is a prefix of its history after
\* the step.
C23_HistoryAppendOnly ==
    [][/\ C23_OneRecordAtTheEnd
       /\ \A s \in DOMAIN store \cap DOMAIN store' :
              IsPrefix(HistoryOf(store, s), HistoryOf(store', s))]_vars

\* C23 as amended: the same, over every step but a save_conversation_context
\* of a context the caller constructed, which replaces the whole entry and
\* its history with it.
C23_HistoryAppendOnlyBarringReplacement ==
    [][/\ C23_OneRecordAtTheEnd
       /\ ~(ret'.op = "save_conversation_context"
               /\ ret'.context_from = "ConversationContext") =>
              \A s \in DOMAIN store \cap DOMAIN store' :
                 IsPrefix(HistoryOf(store, s), HistoryOf(store', s))]_vars

\* a message and then an interruption recorded in session s1
C23_Witness ==
    /\ ret.op = "on_interruption"
    /\ ret.tracked = Some("s1")
    /\ "s1" \in DOMAIN store
    /\ Len(store["s1"].context.conversation_history) = 2
    /\ store["s1"].context.conversation_history[1].role = "user"
    /\ store["s1"].context.conversation_history[2].type = "interruption"

----------------------------------------------------------------------------
(* Claims about the safety gate *)

\* C6: for all 16 flag combinations: needs_medical blocks with the emergency
\* guidance whatever the other flags; else an unsafe location blocks with the
\* relocate guidance; else no police contact confirms with the police
\* recommendation; else confirms with the proceed guidance.
C6_SafetyPriority ==
    ret.op = "assess_safety" =>
        /\ ret.needs_medical =>
              ~ret.safety_confirmed /\ ret.guidance = GUIDANCE_MEDICAL
        /\ ~ret.needs_medical /\ ~ret.in_safe_location =>
              ~ret.safety_confirmed /\ ret.guidance = GUIDANCE_RELOCATE
        /\ ~ret.needs_medical /\ ret.in_safe_location /\ ~ret.police_contacted =>
              ret.safety_confirmed /\ ret.guidance = GUIDANCE_POLICE
        /\ ~ret.needs_medical /\ ret.in_safe_location /\ ret.police_contacted =>
              ret.safety_confirmed /\ ret.guidance = GUIDANCE_PROCEED

\* medical need with an unsafe location: the medical guidance wins
C6_Witness ==
    /\ ret.op = "assess_safety"
    /\ ret.needs_medical /\ ~ret.in_safe_location /\ ret.is_safe
    /\ ~ret.safety_confirmed

\* C7: claim fields are stored for a session only after an assess_safety call
\* of that conversation returned safety_confirmed = true.
C7_CollectionOnlyAfterSafety ==
    \A s \in DOMAIN store :
        (\E f \in ClaimFields : ~IsNone(store[s].context[f])) => TRUE \in assessed[s]

----------------------------------------------------------------------------
(* Claims about the agent module *)

\* C26: every get_agent and get_model call returns the instance, which is not
\* None, and the instance has been created exactly once.
C26_OneInstance ==
    /\ ret.op = "get_agent" =>
          /\ ret.outcome.kind = "return"
          /\ ~IsNone(ret.outcome.value)
          /\ ret.outcome.value = module_globals["_agent_instance"]
          /\ created.agent = 1
    /\ ret.op = "get_model" /\ Truthy(world.region) =>
          /\ ret.outcome.kind = "return"
          /\ ~IsNone(ret.outcome.value)
          /\ ret.outcome.value = module_globals["_model_instance"]
          /\ created.model = 1

----------------------------------------------------------------------------
(* Claims about the claim submission *)

\* C8: submit_to_fnol_api never lets an exception escape: whatever the
\* configuration, the signing and the HTTP call do, it returns a result
\* with a boolean success.
C8_SubmitNeverRaises ==
    ret.op = "submit_to_fnol_api" =>
        /\ ret.outcome.kind = "return"
        /\ ret.outcome.value.success \in BOOLEAN

\* a 200 response whose body is not JSON ends as a failure result
C8_Witness ==
    /\ ret.op = "submit_to_fnol_api"
    /\ ret.posted
    /\ world.http = "response" /\ world.status = 200 /\ world.body.kind = "text"
    /\ ret.outcome.kind = "return"
    /\ ~ret.outcome.value.success

\* C11: submit_to_fnol_api POSTs only after a validate_required_fields call
\* has returned ready_for_submission = true.
C11_SubmitOnlyAfterValidation ==
    ret.op = "submit_to_fnol_api" /\ ret.posted => validated # {}

\* the payload carries the claim values of the context
FromContext(p, c) ==
    /\ {"occurrenceDateTime", "description"} \subseteq DOMAIN p.incident
    /\ "id" \in DOMAIN p.policy
    /\ {"driversLicenseNumber", "licensePlateNumber", "numberOfPassengers",
        "isInsurerDriver"} \subseteq DOMAIN p.personalInformation
    /\ {"isFiled", "reportOrReceiptAvailable"} \subseteq DOMAIN p.policeReport
    /\ c.occurrence_date_time = Some(p.incident.occurrenceDateTime)
    /\ c.damage_description = Some(p.incident.description)
    /\ c.policy_id = Some(p.policy.id)
    /\ c.drivers_license = Some(p.personalInformation.driversLicenseNumber)
    /\ c.license_plate = Some(p.personalInformation.licensePlateNumber)
    /\ c.number_of_passengers = Some(p.personalInformation.numberOfPassengers)
    /\ c.was_driving = Some(p.personalInformation.isInsurerDriver)
    /\ c.police_filed = Some(p.policeReport.isFiled)
    /\ c.police_receipt = Some(p.policeReport.reportOrReceiptAvailable)

\* C12: the payload submit_to_fnol_api sends carries the occurrence time,
\* description, policy id, license number, plate, passenger count, driving
\* flag and police-report flags stored in a session's context at that time.
C12_PayloadFromContext ==
    ret.op = "submit_to_fnol_api" /\ ret.posted =>
        \E s \in DOMAIN store : FromContext(ret.payload, store[s].context)

\* the required parts of the FNOLPayload schema are there
Conforms(p) ==
    /\ {"occurrenceDateTime", "fnolDateTime", "location", "description"}
          \subseteq DOMAIN p.incident
    /\ {"country", "state", "city", "zip", "road"} \subseteq DOMAIN p.incident.location
    /\ "id" \in DOMAIN p.policy
    /\ {"customerId", "driversLicenseNumber", "isInsurerDriver", "licensePlateNumber",
        "numberOfPassengers"} \subseteq DOMAIN p.personalInformation
    /\ p.personalInformation.isInsurerDriver \in BOOLEAN
    /\ {"isFiled", "reportOrReceiptAvailable"} \subseteq DOMAIN p.policeReport
    /\ p.policeReport.isFiled \in BOOLEAN
    /\ p.policeReport.reportOrReceiptAvailable \in BOOLEAN

\* C13: every payload that is POSTed conforms to the FNOLPayload schema; one
\* that does not conform is never sent.
C13_OnlyConformingPayloadsSent ==
    ret.op = "submit_to_fnol_api" /\ ret.posted => Conforms(ret.payload)

\* the first non-empty reference among the four response fields, if any
FirstReference(body) ==
    IF body.kind # "object" THEN None
    ELSE LET names == <<"claimId", "claimNumber", "referenceNumber", "id">>
             found == SelectSeq(names, LAMBDA k : Truthy(Field(body, k)))
         IN IF found = <<>> THEN None ELSE Field(body, found[1])

\* C14: on every HTTP 200 response the result has success = true and a
\* non-empty claimNumber: the first of claimId, claimNumber, referenceNumber,
\* id the response carries, else "FNOL-" and the UTC time; the message
\* embeds it.
C14_Http200Succeeds ==
    ret.op = "submit_to_fnol_api" /\ ret.posted
        /\ world.http = "response" /\ world.status = 200 =>
        LET r == ret.outcome.value
            reference == IF IsNone(FirstReference(world.body)) THEN <<"FNOL-", now>>
                         ELSE <<Val(FirstReference(world.body))>>
        IN /\ ret.outcome.kind = "return"
           /\ r.success
           /\ r.claimNumber = reference
           /\ r.claimNumber # <<"">>
           /\ r.message[2] = reference

\* C27: the location of every payload that is POSTed has a road field holding
\* the complete location description stored in a session's context.
C27_RoadIsTheDescription ==
    ret.op = "submit_to_fnol_api" /\ ret.posted =>
        /\ "location" \in DOMAIN ret.payload.incident
        /\ "road" \in DOMAIN ret.payload.incident.location
        /\ \E s \in DOMAIN store :
              store[s].context.location_description
                 = Some(ret.payload.incident.location.road)

\* C15: when the POST times out, the call returns success = false with the
\* error "Request timeout" and the try-again message, and the context store
\* is as it was before the call.
C15_TimeoutIsAFailureResult ==
    [][ret'.op = "submit_to_fnol_api" /\ ret'.posted /\ world.http = "timeout" =>
        /\ ret'.outcome =
              Return([success |-> FALSE,
                      error |-> <<"Request timeout">>,
                      message |-> "The claim submission timed out. Please try again."])
        /\ store' = store]_vars

\* a timed-out submission while a session holds collected data
C15_Witness ==
    /\ ret.op = "submit_to_fnol_api"
    /\ ret.posted
    /\ world.http = "timeout"
    /\ ret.outcome.kind = "return"
    /\ ~ret.outcome.value.success
    /\ \E s \in DOMAIN store : store[s].context.policy_id = Some("y")

\* the call ended with a failure result
Failed(outcome) ==
    /\ outcome.kind = "return"
    /\ ~outcome.value.success
    /\ {"error", "message"} \subseteq DOMAIN outcome.value

\* C16 as stated: with the endpoint or the region not configured,
\* submit_to_fnol_api and get_customer_info return a failure result and send
\* no request.
C16_MissingConfigurationFails ==
    /\ ret.op = "submit_to_fnol_api"
          /\ (~Truthy(world.endpoint) \/ IsNone(world.region)) =>
            Failed(ret.outcome) /\ ~ret.posted
    /\ ret.op = "get_customer_info"
          /\ (~Truthy(world.customer_endpoint) \/ IsNone(world.region)) =>
            Failed(ret.outcome) /\ ~ret.requested

\* C16 as amended: with its endpoint not configured (unset or empty), the
\* tool returns the "endpoint not configured" failure and sends no request;
\* a missing region is no failure of these tools: when the endpoint and the
\* credentials are there, the request is signed for us-east-1 and sent.
C16_MissingEndpointFails ==
    /\ ret.op = "submit_to_fnol_api" =>
          /\ ~Truthy(world.endpoint) =>
                /\ Failed(ret.outcome) /\ ~ret.posted /\ IsNone(ret.request)
                /\ ret.outcome.value.error = <<"FNOL API endpoint not configured">>
          /\ world.endpoint = Some("https://api.example.com/fnol")
                /\ world.credentials = "ok" /\ IsNone(world.region) =>
                /\ ret.posted
                /\ Val(ret.request).headers.Authorization[1] = "us-east-1"
    /\ ret.op = "get_customer_info" =>
          /\ ~Truthy(world.customer_endpoint) =>
                /\ Failed(ret.outcome) /\ ~ret.requested /\ IsNone(ret.request)
                /\ ret.outcome.value.error = <<"Customer API endpoint not configured">>
          /\ world.customer_endpoint = Some("https://api.example.com/")
                /\ world.credentials = "ok" /\ IsNone(world.region) =>
                /\ ret.requested
                /\ Val(ret.request).headers.Authorization[1] = "us-east-1"

\* no endpoint for the claims service, although credentials and region are there
C16_Witness ==
    /\ ret.op = "submit_to_fnol_api"
    /\ world.endpoint = Some("")
    /\ world.credentials = "ok"
    /\ ~IsNone(world.region)
    /\ ~ret.posted
    /\ ~ret.outcome.value.success

\* C17: every result has success, payload and message; claimNumber is there
\* exactly when success is true, error exactly when it is false; on failure
\* the message differs from the error.
C17_ResultShape ==
    ret.op = "submit_to_fnol_api" /\ ret.outcome.kind = "return" =>
        LET r == ret.outcome.value
        IN /\ {"success", "payload", "message"} \subseteq DOMAIN r
           /\ "claimNumber" \in DOMAIN r <=> r.success
           /\ "error" \in DOMAIN r <=> ~r.success
           /\ ~r.success => <<r.message>> # r.error

\* C18: validate_required_fields and get_customer_info end with a result
\* value, never with an exception, whatever map or remote answer they get
\* (assess_safety and extract_claim_info have no raising path).
C18_ToolsNeverRaise ==
    ret.op \in {"validate_required_fields", "get_customer_info"} =>
        ret.outcome.kind = "return"

----------------------------------------------------------------------------
(* Claims about validate_required_fields *)

RequiredOrder ==
    <<"location", "dateTime", "damageDescription", "policyNumber", "driversLicense",
      "numberOfPassengers", "wasDriving", "policeFiled">>

\* the key is not in the map, or is there with null
Absent(m, k) == k \notin DOMAIN m \/ m[k] = None

\* the key is absent, or is a text key holding the empty string
Unfilled(m, k) ==
    \/ Absent(m, k)
    \/ k \in {"location", "dateTime", "damageDescription", "policyNumber",
              "driversLicense", "otherPartyName", "otherPartyInsurance"}
         /\ m[k] = Some("")

\* involvedParties holds a value that is neither falsy nor has a length
Unsized(m) ==
    /\ ~Absent(m, "involvedParties")
    /\ "int" \in DOMAIN Val(m["involvedParties"])
    /\ Val(m["involvedParties"]).int # 0

\* there is no involvedParties entry with at least one element
NoPartyList(m) ==
    \/ Absent(m, "involvedParties")
    \/ m["involvedParties"] \in {Some(PyList(<<>>)), Some(PyInt(0))}

WithoutParties(missing) == SelectSeq(missing, LAMBDA k : k # "involvedParties")

Reported(missing, k) == \E i \in 1..Len(missing) : missing[i] = k

\* C9 as stated: the required keys absent from the map, in the fixed order,
\* then policeReceipt iff policeFiled is true and policeReceipt is absent;
\* is_valid iff nothing is missing, ready_for_submission = is_valid; the
\* empty map is invalid and reports every required key and involvedParties.
C9_AbsentKeysReported ==
    ret.op = "validate_required_fields" =>
        LET m == ret.claim_data
            r == ret.outcome.value
        IN /\ ret.outcome.kind = "return"
           /\ WithoutParties(r.missing_fields) =
                 SelectSeq(RequiredOrder, LAMBDA k : Absent(m, k))
                 \o Opt(~Absent(m, "policeFiled") /\ m["policeFiled"] = Some(TRUE)
                          /\ Absent(m, "policeReceipt"), "policeReceipt")
           /\ r.is_valid <=> r.missing_fields = <<>>
           /\ r.ready_for_submission = r.is_valid
           /\ m = EmptyClaim =>
                 ~r.is_valid /\ r.missing_fields = RequiredOrder \o <<"involvedParties">>

\* C9 as amended: a required key is reported when it is absent, null or, for
\* the five text keys, an empty string; and the call returns no result at all,
\* raising TypeError, when involvedParties is a non-zero number.
C9_UnfilledKeysReported ==
    ret.op = "validate_required_fields" =>
        LET m == ret.claim_data
            r == ret.outcome.value
        IN IF Unsized(m)
           THEN ret.outcome = Raise("TypeError")
           ELSE /\ ret.outcome.kind = "return"
                /\ WithoutParties(r.missing_fields) =
                      SelectSeq(RequiredOrder, LAMBDA k : Unfilled(m, k))
                      \o Opt(~Absent(m, "policeFiled") /\ m["policeFiled"] = Some(TRUE)
                               /\ Absent(m, "policeReceipt"), "policeReceipt")
                /\ r.is_valid <=> r.missing_fields = <<>>
                /\ r.ready_for_submission = r.is_valid
                /\ m = EmptyClaim =>
                      /\ ~r.is_valid
                      /\ r.missing_fields = RequiredOrder \o <<"involvedParties">>

\* an otherwise complete map whose location is the empty string
C9_Witness ==
    /\ ret.op = "validate_required_fields"
    /\ ret.claim_data = claim_data
    /\ claim_data = with_key(CompleteClaim, "location", Some(""))
    /\ ret.outcome.kind = "return"
    /\ ret.outcome.value.missing_fields = <<"location">>
    /\ ~ret.outcome.value.ready_for_submission

====
